---- MODULE Spec2Model ----
(***************************************************************************)
(* Query-processing pipeline of the AI Study Assistant.                    *)
(*                                                                         *)
(*   app/workflows/graph.py          WorkflowOrchestrator (graph, envelope)*)
(*   app/nodes/document_retriever.py DocumentRetriever (filter, rank,      *)
(*                                   context)                              *)
(*   app/nodes/doubt_resolver.py     DoubtResolver                         *)
(*                                                                         *)
(* Similarities and scores are kept in hundredths (0.7 is 70, a boost of   *)
(* 0.1 is 10).  A chunk's text is represented by the id of the document it *)
(* was cut from.  The context string is kept as the list of parts that     *)
(* _build_context joins with newlines; "" is the empty list.               *)
(***************************************************************************)
EXTENDS Integers, Sequences, FiniteSets, TLC

----------------------------------------------------------------------------
(* Bounds *)

\* longest raw search result the vector store returns
MaxHits == 2

----------------------------------------------------------------------------
(* Values *)

None == "None"

END == "END"

Users == {1, 2}

Visibilities == {"public", "private"}

DocTypes == {"notes", "marking_scheme", "other"}

Similarities == {55, 90}

Intents == {"ANSWER_GENERATION", "ANSWER_EVALUATION", "DOUBT_CLARIFICATION",
            "QUESTION_GENERATION", "EXAM_PAPER_GENERATION"}

\* Intent.value: the enum's string value
IntentValue(intent) ==
    CASE intent = "ANSWER_GENERATION"     -> "answer_generation"
      [] intent = "ANSWER_EVALUATION"     -> "answer_evaluation"
      [] intent = "DOUBT_CLARIFICATION"   -> "doubt_clarification"
      [] intent = "QUESTION_GENERATION"   -> "question_generation"
      [] intent = "EXAM_PAPER_GENERATION" -> "exam_paper_generation"

\* settings.SIMILARITY_THRESHOLD (0.7)
SIMILARITY_THRESHOLD == 70

\* DocumentRetriever.RETRIEVAL_COUNTS
RETRIEVAL_COUNTS(intent) ==
    CASE intent = "ANSWER_GENERATION"     -> 10
      [] intent = "ANSWER_EVALUATION"     -> 5
      [] intent = "DOUBT_CLARIFICATION"   -> 8
      [] intent = "QUESTION_GENERATION"   -> 10
      [] intent = "EXAM_PAPER_GENERATION" -> 15
      [] OTHER                            -> 10

\* DocumentRetriever.DOCUMENT_TYPE_PRIORITIES
DOCUMENT_TYPE_PRIORITIES(intent) ==
    CASE intent = "ANSWER_GENERATION"     -> <<"marking_scheme", "notes", "question_paper">>
      [] intent = "ANSWER_EVALUATION"     -> <<"marking_scheme">>
      [] intent = "DOUBT_CLARIFICATION"   -> <<"notes", "marking_scheme">>
      [] intent = "QUESTION_GENERATION"   -> <<"notes", "question_paper">>
      [] intent = "EXAM_PAPER_GENERATION" -> <<"notes", "question_paper", "marking_scheme">>
      [] OTHER                            -> <<>>

\* the chunks the vector store can return: one per document, owner,
\* visibility, type and similarity to the query
RawHits ==
    { [document   |-> <<"text", o, v, t>>,
       metadata   |-> [document_id |-> <<o, v, t>>, user_id |-> o,
                       visibility |-> v, document_type |-> t],
       similarity |-> s] :
      o \in Users, v \in Visibilities, t \in DocTypes, s \in Similarities }

\* every raw search result of at most n hits
SeqsUpTo(S, n) == UNION { [1..k -> S] : k \in 0..n }

SearchResults == SeqsUpTo(RawHits, MaxHits)

----------------------------------------------------------------------------
(* DocumentRetriever: pure helpers *)

Range(s) == { s[i] : i \in DOMAIN s }

\* list.index, 0-based
IndexOf(s, x) == (CHOOSE i \in DOMAIN s : s[i] = x /\ \A j \in 1..(i-1) : s[j] # x) - 1

\* faulty variant: the owner test inverted (== for !=)
AccessDenied_OwnerInverted(result, user_id) ==
    result.metadata.user_id = user_id /\ result.metadata.visibility # "public"

\* the access check of the filter loop: a hit is skipped when it is neither
\* the requesting user's own nor public
AccessDenied(result, user_id) ==
    result.metadata.user_id # user_id /\ result.metadata.visibility # "public"

\* faulty variant: the boost counts from the position, not from the end
Boost_ByPosition(doc_type, intent) ==
    LET type_priorities == DOCUMENT_TYPE_PRIORITIES(intent)
    IN  IF doc_type \in Range(type_priorities)
        THEN IndexOf(type_priorities, doc_type) * 10
        ELSE 0

\* the priority boost of a document type under an intent
Boost(doc_type, intent) ==
    LET type_priorities == DOCUMENT_TYPE_PRIORITIES(intent)
    IN  IF doc_type \in Range(type_priorities)
        THEN (Len(type_priorities) - IndexOf(type_priorities, doc_type)) * 10
        ELSE 0

\* the ranking score of a hit: similarity plus boost
BoostedScore(result, intent) ==
    result.similarity + Boost(result.metadata.document_type, intent)

\* the threshold test of the filter loop
PassesThreshold(score) == score >= SIMILARITY_THRESHOLD

\* faulty variant: the threshold is tested on the similarity, before boosting
RECURSIVE ScoredResults_ThresholdFirst(_, _, _)
ScoredResults_ThresholdFirst(results, intent, user_id) ==
    IF results = <<>> THEN <<>>
    ELSE LET result == Head(results)
             rest   == ScoredResults_ThresholdFirst(Tail(results), intent, user_id)
         IN  IF AccessDenied(result, user_id) THEN rest
             ELSE IF PassesThreshold(result.similarity)
                  THEN <<[result |-> result,
                          score |-> result.similarity
                                    + Boost(result.metadata.document_type, intent)]>>
                       \o rest
                  ELSE rest

\* the filter loop: scored_results, in search order
RECURSIVE ScoredResults(_, _, _)
ScoredResults(results, intent, user_id) ==
    IF results = <<>> THEN <<>>
    ELSE LET result == Head(results)
             rest   == ScoredResults(Tail(results), intent, user_id)
             score  == BoostedScore(result, intent)
         IN  IF AccessDenied(result, user_id) THEN rest
             ELSE IF PassesThreshold(score)
                  THEN <<[result |-> result, score |-> score]>> \o rest
                  ELSE rest

\* faulty variant: the item goes in front of the elements of equal score
RECURSIVE InsertByScore_Unstable(_, _)
InsertByScore_Unstable(sorted, item) ==
    IF sorted = <<>> THEN <<item>>
    ELSE IF Head(sorted).score > item.score
         THEN <<Head(sorted)>> \o InsertByScore_Unstable(Tail(sorted), item)
         ELSE <<item>> \o sorted

\* insert item behind every element whose score is not lower (keeps the
\* order of equal scores)
RECURSIVE InsertByScore(_, _)
InsertByScore(sorted, item) ==
    IF sorted = <<>> THEN <<item>>
    ELSE IF Head(sorted).score >= item.score
         THEN <<Head(sorted)>> \o InsertByScore(Tail(sorted), item)
         ELSE <<item>> \o sorted

\* list.sort(key=score, reverse=True): stable, descending
RECURSIVE SortByScoreDesc(_)
SortByScoreDesc(scored) ==
    IF scored = <<>> THEN <<>>
    ELSE InsertByScore(SortByScoreDesc(SubSeq(scored, 1, Len(scored) - 1)),
                       scored[Len(scored)])

Min(a, b) == IF a <= b THEN a ELSE b

\* faulty variant: cut at the count asked of the search, twice n_results
Truncate_Doubled(s, n) == SubSeq(s, 1, Min(2 * n, Len(s)))

\* scored_results[:n_results]
Truncate(s, n) == SubSeq(s, 1, Min(n, Len(s)))

\* faulty variant: the ranking score is written back into the result
_filter_and_rank_results_ScoreWritten(search_results, intent, user_id, n_results) ==
    IF search_results = <<>> THEN <<>>
    ELSE LET sorted == SortByScoreDesc(ScoredResults(search_results, intent, user_id))
             top    == Truncate(sorted, n_results)
         IN  [i \in DOMAIN top |-> [top[i].result EXCEPT !.similarity = top[i].score]]

_filter_and_rank_results(search_results, intent, user_id, n_results) ==
    IF search_results = <<>> THEN <<>>
    ELSE LET sorted == SortByScoreDesc(ScoredResults(search_results, intent, user_id))
             top    == Truncate(sorted, n_results)
         IN  [i \in DOMAIN top |-> top[i].result]

_format_retrieved_documents(results) ==
    [i \in DOMAIN results |->
        [document_id      |-> results[i].metadata.document_id,
         document_type    |-> results[i].metadata.document_type,
         chunk_text       |-> results[i].document,
         similarity_score |-> results[i].similarity,
         metadata         |-> results[i].metadata]]

\* the characters of a document type's name
TypeChars(doc_type) ==
    CASE doc_type = "notes" -> <<"n", "o", "t", "e", "s">>
      [] doc_type = "marking_scheme" ->
            <<"m", "a", "r", "k", "i", "n", "g", "_", "s", "c", "h", "e", "m", "e">>
      [] doc_type = "question_paper" ->
            <<"q", "u", "e", "s", "t", "i", "o", "n", "_", "p", "a", "p", "e", "r">>
      [] doc_type = "other" -> <<"o", "t", "h", "e", "r">>

\* str.upper on one character
UpperChar(c) ==
    CASE c = "a" -> "A" [] c = "c" -> "C" [] c = "e" -> "E" [] c = "g" -> "G"
      [] c = "h" -> "H" [] c = "i" -> "I" [] c = "k" -> "K" [] c = "m" -> "M"
      [] c = "n" -> "N" [] c = "o" -> "O" [] c = "p" -> "P" [] c = "q" -> "Q"
      [] c = "r" -> "R" [] c = "s" -> "S" [] c = "t" -> "T" [] c = "u" -> "U"
      [] OTHER -> c

\* f"\n--- {doc_type.upper().replace('_', ' ')} ---\n", as characters
HeaderText(doc_type) ==
    <<"\n", "-", "-", "-", " ">>
    \o [i \in DOMAIN TypeChars(doc_type) |->
          IF UpperChar(TypeChars(doc_type)[i]) = "_" THEN " "
          ELSE UpperChar(TypeChars(doc_type)[i])]
    \o <<" ", "-", "-", "-", "\n">>

\* f"{similarity_score:.2f}" of a score in hundredths: units, point, two
\* decimals
Format2f(score) ==
    <<score \div 100, ".", (score % 100) \div 10, score % 10>>

\* f"[Chunk {i} | Similarity: {similarity_score:.2f}]"
ChunkInfo(i, score) ==
    <<"[Chunk ", i, " | Similarity: ">> \o Format2f(score) \o <<"]">>

\* faulty variant: a type seen again moves to the end
RECURSIVE TypesInOrder_LastSeen(_)
TypesInOrder_LastSeen(documents) ==
    IF documents = <<>> THEN <<>>
    ELSE LET front == TypesInOrder_LastSeen(SubSeq(documents, 1, Len(documents) - 1))
             t     == documents[Len(documents)].document_type
         IN  Append(SelectSeq(front, LAMBDA x : x # t), t)

\* the keys of by_type in insertion order: document types by first appearance
RECURSIVE TypesInOrder(_)
TypesInOrder(documents) ==
    IF documents = <<>> THEN <<>>
    ELSE LET front == TypesInOrder(SubSeq(documents, 1, Len(documents) - 1))
             t     == documents[Len(documents)].document_type
         IN  IF t \in Range(front) THEN front ELSE Append(front, t)

\* by_type[doc_type]: the documents of one type, in ranking order
DocsOfType(documents, doc_type) ==
    SelectSeq(documents, LAMBDA d : d.document_type = doc_type)

\* the parts appended for one group: its header, then its chunks numbered
\* from 1 with their similarity
GroupParts(doc_type, docs) ==
    <<[kind |-> "header", doc_type |-> doc_type, text |-> HeaderText(doc_type)]>> \o
    [i \in DOMAIN docs |->
        [kind |-> "chunk", index |-> i, similarity |-> docs[i].similarity_score,
         chunk_info |-> ChunkInfo(i, docs[i].similarity_score),
         chunk_text |-> docs[i].chunk_text]]

RECURSIVE ConcatGroups(_, _)
ConcatGroups(types, documents) ==
    IF types = <<>> THEN <<>>
    ELSE GroupParts(Head(types), DocsOfType(documents, Head(types)))
         \o ConcatGroups(Tail(types), documents)

\* faulty variant: a placeholder text stands in for an empty context
_build_context_Placeholder(documents) ==
    IF documents = <<>>
    THEN <<[kind |-> "chunk", index |-> 0, similarity |-> 0,
            chunk_info |-> <<>>, chunk_text |-> "No relevant documents found."] >>
    ELSE ConcatGroups(TypesInOrder(documents), documents)

\* context_parts; the empty list stands for the empty string
_build_context(documents) ==
    IF documents = <<>> THEN <<>>
    ELSE ConcatGroups(TypesInOrder(documents), documents)

\* len(context) in characters: each header is "\n--- TYPE ---\n", each chunk
\* "[Chunk i | Similarity: 0.xx]\n" + text + "\n" (a text of TextLen
\* characters), joined by "\n"
TextLen == 40

TypeNameLen(doc_type) ==
    CASE doc_type = "notes"          -> 5
      [] doc_type = "marking_scheme" -> 14
      [] doc_type = "question_paper" -> 14
      [] OTHER                       -> 5

PartLen(part) ==
    IF part.kind = "header" THEN 10 + TypeNameLen(part.doc_type)
    ELSE 28 + 1 + TextLen + 1

RECURSIVE SumPartLen(_)
SumPartLen(parts) ==
    IF parts = <<>> THEN 0 ELSE PartLen(Head(parts)) + SumPartLen(Tail(parts))

ContextLen(context) ==
    IF context = <<>> THEN 0 ELSE SumPartLen(context) + Len(context) - 1

\* the intent keywords _enhance_query appends to the query
_enhance_query(query, intent) ==
    <<query,
      CASE intent = "ANSWER_GENERATION"     -> "answer solution explanation"
        [] intent = "ANSWER_EVALUATION"     -> "marking scheme grading criteria"
        [] intent = "DOUBT_CLARIFICATION"   -> "explanation concept definition"
        [] intent = "QUESTION_GENERATION"   -> "questions examples problems"
        [] intent = "EXAM_PAPER_GENERATION" -> "questions topics syllabus"
        [] OTHER                            -> "">>

\* faulty variant: the except clause re-raises instead of emptying the state
retrieve_Reraise(st, search) ==
    IF search.ok
    THEN LET filtered_results == _filter_and_rank_results(search.results, st.intent,
                                     st.user_id, RETRIEVAL_COUNTS(st.intent))
             retrieved_docs   == _format_retrieved_documents(filtered_results)
         IN  [raised |-> FALSE,
              state  |-> [st EXCEPT !.retrieved_documents = retrieved_docs,
                                    !.context = _build_context(retrieved_docs),
                                    !.document_types_available =
                                        { retrieved_docs[i].document_type :
                                             i \in DOMAIN retrieved_docs },
                                    !.retrieval_query = _enhance_query(st.query, st.intent),
                                    !.nodes_visited = Append(@, "document_retriever")]]
    ELSE [raised |-> TRUE, state |-> st]

\* DocumentRetriever.retrieve as a function of the state and of what the
\* vector-store search did: search.ok = FALSE is any exception inside the try
\* block.  raised tells whether retrieve itself raises.
retrieve(st, search) ==
    IF search.ok
    THEN LET intent           == st.intent
             enhanced_query   == _enhance_query(st.query, intent)
             n_results        == RETRIEVAL_COUNTS(intent)
             filtered_results == _filter_and_rank_results(search.results, intent,
                                                          st.user_id, n_results)
             retrieved_docs   == _format_retrieved_documents(filtered_results)
             context          == _build_context(retrieved_docs)
             doc_types        == { retrieved_docs[i].document_type :
                                      i \in DOMAIN retrieved_docs }
         IN  [raised |-> FALSE,
              state  |-> [st EXCEPT !.retrieved_documents = retrieved_docs,
                                    !.context = context,
                                    !.document_types_available = doc_types,
                                    !.retrieval_query = enhanced_query,
                                    !.nodes_visited = Append(@, "document_retriever")]]
    ELSE [raised |-> FALSE,
          state  |-> [st EXCEPT !.retrieved_documents = <<>>,
                                !.context = <<>>,
                                !.document_types_available = {},
                                !.nodes_visited = Append(@, "document_retriever")]]

----------------------------------------------------------------------------
(* DoubtResolver *)

\* faulty variant: no document is needed to call the notes relevant
_check_relevance_AtLeastZero(retrieved_docs) ==
    Cardinality({ i \in DOMAIN retrieved_docs :
                     retrieved_docs[i].similarity_score >= 70 }) >= 0

\* faulty variant: one good document is enough
_check_relevance_AtLeastOne(retrieved_docs) ==
    IF retrieved_docs = <<>> THEN FALSE
    ELSE Cardinality({ i \in DOMAIN retrieved_docs :
                          retrieved_docs[i].similarity_score >= 70 }) >= 1

\* at least two retrieved documents with similarity_score >= 0.7
_check_relevance(retrieved_docs) ==
    IF retrieved_docs = <<>> THEN FALSE
    ELSE Cardinality({ i \in DOMAIN retrieved_docs :
                          retrieved_docs[i].similarity_score >= 70 }) >= 2

\* the source the answer is generated from
SourceType(has_relevant_notes) ==
    IF has_relevant_notes THEN "notes" ELSE "general_knowledge"

_format_response(answer, source_type, has_relevant_notes) ==
    IF source_type = "notes"
    THEN "## Answer (Based on Your Notes)" \o answer \o "based on your uploaded notes"
    ELSE "## Answer" \o answer \o "based on general knowledge"

\* DoubtResolver.resolve when the generation call returns answer
\* the generation call of resolve: _answer_from_notes formats the notes
\* prompt with query and context, _answer_from_general_knowledge the general
\* prompt with the query alone
DoubtGeneration(st) ==
    IF _check_relevance(st.retrieved_documents)
    THEN [prompt        |-> "DOUBT_RESOLVER_NOTES_PROMPT",
          system_prompt |-> "DOUBT_RESOLVER_SYSTEM",
          query         |-> st.query,
          context       |-> st.context]
    ELSE [prompt        |-> "DOUBT_RESOLVER_GENERAL_PROMPT",
          system_prompt |-> "DOUBT_RESOLVER_GENERAL_SYSTEM",
          query         |-> st.query,
          context       |-> <<>>]

resolve(st, answer) ==
    LET has_relevant_notes == _check_relevance(st.retrieved_documents)
        source_type        == SourceType(has_relevant_notes)
    IN  [st EXCEPT !.final_response = _format_response(answer, source_type,
                                                       has_relevant_notes),
                   !.task_data = [source_type |-> source_type,
                                  has_relevant_notes |-> has_relevant_notes],
                   !.nodes_visited = Append(@, "doubt_resolver")]

----------------------------------------------------------------------------
(* WorkflowOrchestrator *)

\* the one query text of the model
Query == "q"

\* Python truthiness of a state value: None, "" and empty collections are false
Truthy(v) == v # None /\ v # ""

\* the state a run starts from
create_initial_state(user_id, query, conversation_id) ==
    [user_id                   |-> user_id,
     query                     |-> query,
     conversation_id           |-> conversation_id,
     intent                    |-> None,
     retrieved_documents       |-> <<>>,
     context                   |-> <<>>,
     document_types_available  |-> {},
     retrieval_query           |-> <<>>,
     nodes_visited             |-> <<>>,
     task_data                 |-> <<>>,
     generated_answer          |-> None,
     evaluation_result         |-> None,
     final_response            |-> None,
     generated_questions       |-> None,
     processing_time           |-> 0,
     status                    |-> "pending"]

\* the nodes added to the graph
Nodes == {"classify_intent", "retrieve_documents", "generate_answer",
          "evaluate_answer", "resolve_doubt", "generate_questions"}

TaskNodes == {"generate_answer", "evaluate_answer", "resolve_doubt",
              "generate_questions"}

\* set_entry_point
EntryPoint == "classify_intent"

\* the router after classification: retrieval for the five known intents,
\* the end otherwise
route_after_intent(st) ==
    IF st.intent \in Intents THEN "retrieve_documents" ELSE "end"

\* the router after retrieval: each intent's own task; exam paper generation
\* has no executor
route_after_retrieval(st) ==
    CASE st.intent = "ANSWER_GENERATION"   -> "generate_answer"
      [] st.intent = "ANSWER_EVALUATION"   -> "evaluate_answer"
      [] st.intent = "DOUBT_CLARIFICATION" -> "resolve_doubt"
      [] st.intent = "QUESTION_GENERATION" -> "generate_questions"
      [] OTHER                             -> "end"

\* add_conditional_edges("classify_intent", route_after_intent, {...})
IntentEdges(key) ==
    CASE key = "retrieve_documents" -> "retrieve_documents"
      [] key = "end"                -> END

\* faulty variant: two targets of the edge map swapped
RetrievalEdges_Swapped(key) ==
    CASE key = "generate_answer"    -> "evaluate_answer"
      [] key = "evaluate_answer"    -> "generate_answer"
      [] key = "resolve_doubt"      -> "resolve_doubt"
      [] key = "generate_questions" -> "generate_questions"
      [] key = "end"                -> END

\* add_conditional_edges("retrieve_documents", route_after_retrieval, {...})
RetrievalEdges(key) ==
    CASE key = "generate_answer"    -> "generate_answer"
      [] key = "evaluate_answer"    -> "evaluate_answer"
      [] key = "resolve_doubt"      -> "resolve_doubt"
      [] key = "generate_questions" -> "generate_questions"
      [] key = "end"                -> END

\* faulty variant: the task nodes lead back to retrieval
TaskEdge_Loop(node) == "retrieve_documents"

\* add_edge(task, END)
TaskEdge(node) == END

\* faulty variant: context_length added whatever the context
ResponseMetadata_Always(st) ==
    [user_id                 |-> st.user_id,
     conversation_id         |-> st.conversation_id,
     document_types_used     |-> st.document_types_available,
     num_documents_retrieved |-> Len(st.retrieved_documents),
     context_length          |-> ContextLen(st.context)]

\* the metadata of the success envelope; context_length is added only for a
\* truthy context
ResponseMetadata(st) ==
    LET base == [user_id                 |-> st.user_id,
                 conversation_id         |-> st.conversation_id,
                 document_types_used     |-> st.document_types_available,
                 num_documents_retrieved |-> Len(st.retrieved_documents)]
    IN  IF st.context # <<>>
        THEN base @@ ("context_length" :> ContextLen(st.context))
        ELSE base

\* the task outputs copied into the envelope: each one only when truthy
TaskOutputs(st) ==
    (IF Truthy(st.generated_answer)
        THEN ("answer" :> st.generated_answer) ELSE <<>>)
    @@ (IF Truthy(st.evaluation_result)
        THEN ("evaluation" :> st.evaluation_result) ELSE <<>>)
    @@ (IF Truthy(st.final_response)
        THEN ("response" :> st.final_response) ELSE <<>>)
    @@ (IF Truthy(st.generated_questions)
        THEN ("questions" :> st.generated_questions) ELSE <<>>)

_build_response(st) ==
    [success         |-> TRUE,
     intent          |-> IF st.intent # None THEN IntentValue(st.intent) ELSE "unknown",
     processing_time |-> st.processing_time,
     nodes_visited   |-> st.nodes_visited,
     metadata        |-> ResponseMetadata(st)]
    @@ TaskOutputs(st)

\* faulty variant: the except clause re-raises
ExceptHandler_Reraise(e, processing_time, user_id, query) ==
    [outcome |-> "raised", response |-> <<>>]

\* faulty variant: the except clause answers with a success envelope
ExceptHandler_SuccessEnvelope(e, processing_time, user_id, query) ==
    [outcome  |-> "returned",
     response |-> [success         |-> TRUE,
                   intent          |-> "unknown",
                   processing_time |-> processing_time,
                   nodes_visited   |-> <<>>,
                   metadata        |-> [user_id |-> user_id]]]

\* the except clause of process_query: the exception becomes the returned
\* failure envelope
ExceptHandler(e, processing_time, user_id, query) ==
    [outcome  |-> "returned",
     response |-> [success         |-> FALSE,
                   error           |-> e.msg,
                   error_type      |-> e.type,
                   processing_time |-> processing_time,
                   user_id         |-> user_id,
                   query           |-> query]]

----------------------------------------------------------------------------
(* State *)

VARIABLES
    pc,              \* position of the run: idle, a graph node, END, done
    state,           \* the GraphState of the run
    outcome,         \* of process_query: none, returned, raised
    response,        \* the envelope process_query returned
    clock,           \* time.time()
    start_time,      \* start_time of process_query
    trace,           \* history: the graph nodes executed, in order
    search,          \* history: what the vector-store search of the run did
    exc              \* history: the exception that left the graph, if any

VARIABLES
    calls            \* history: each external call (search, generation) of a
                     \* stage with the nodes_visited it was made under

VARIABLES
    db,              \* the conversations and messages tables
    sq,              \* the locals of one stream_query request
    events,          \* the server-sent events of the request, in order
    llm,             \* history: what the generation stream produced
    client           \* whether the caller is still connected

VARIABLES
    runs,            \* concurrent process_query runs: position, state, result
    shared           \* what the runs share: the retriever instance, the clock

VARIABLES
    rk               \* one application of the retriever to a search result

pipelineVars == <<pc, state, outcome, response, clock, start_time, trace, search, exc, calls>>

streamVars == <<db, sq, events, llm, client>>

concVars == <<runs, shared>>

rankVars == <<rk>>

vars == <<pipelineVars, streamVars, concVars, rankVars>>

\* the parts of the model a specification does not use stay at rest
StreamOff == db = <<>> /\ sq = <<>> /\ events = <<>> /\ llm = <<>> /\ client = None

ConcOff == runs = <<>> /\ shared = <<>>

RankOff == rk = <<>>

NoSearch == [done |-> FALSE, ok |-> TRUE, results |-> <<>>]

NoExc == [type |-> None, msg |-> None, node |-> None]

\* the orchestrator is built and no query has arrived
PipelineInit ==
    /\ pc = "idle"
    /\ state = create_initial_state(0, Query, None)
    /\ outcome = "none"
    /\ response = <<>>
    /\ clock = 0
    /\ start_time = 0
    /\ trace = <<>>
    /\ search = NoSearch
    /\ exc = NoExc
    /\ calls = <<>>

Init == PipelineInit /\ StreamOff /\ ConcOff /\ RankOff

\* an exception e leaves the try block of process_query
Raise(e, start, user_id) ==
    LET h == ExceptHandler(e, (clock + 1) - start, user_id, Query)
    IN  /\ exc' = e
        /\ outcome' = h.outcome
        /\ response' = h.response
        /\ pc' = "done"

\* process_query is called: start_time is taken and the initial state
\* created; the graph starts at its entry point
ProcessQuery ==
    /\ pc = "idle"
    /\ clock' = clock + 1
    /\ start_time' = clock
    /\ \E user_id \in Users, created \in BOOLEAN :
          IF created
          THEN /\ state' = [create_initial_state(user_id, Query, None)
                               EXCEPT !.status = "in_progress"]
               /\ pc' = EntryPoint
               /\ UNCHANGED <<outcome, response, exc>>
          ELSE /\ Raise([type |-> "ValueError", msg |-> "initial state",
                         node |-> "create_initial_state"], clock, user_id)
               /\ UNCHANGED state
    /\ UNCHANGED <<trace, search, calls>>
    /\ UNCHANGED <<streamVars, concVars, rankVars>>

\* node classify_intent: the classifier names one of the five intents, or
\* leaves the intent unrecognized, or fails; then route_after_intent
ClassifyIntentNode ==
    /\ pc = "classify_intent"
    /\ clock' = clock + 1
    /\ trace' = Append(trace, "classify_intent")
    /\ calls' = Append(calls, [stage |-> "classify_intent",
                               nodes_visited |-> Append(state.nodes_visited,
                                                        "classify_intent")])
    /\ \/ \E intent \in Intents \cup {None} :
             /\ state' = [state EXCEPT !.intent = intent,
                                       !.nodes_visited = Append(@, "classify_intent")]
             /\ pc' = IntentEdges(route_after_intent(state'))
             /\ UNCHANGED <<outcome, response, exc>>
       \/ /\ Raise([type |-> "ClassificationError", msg |-> "unparseable model output",
                    node |-> "classify_intent"], start_time, state.user_id)
          /\ state' = [state EXCEPT !.nodes_visited = Append(@, "classify_intent")]
    /\ UNCHANGED <<start_time, search>>
    /\ UNCHANGED <<streamVars, concVars, rankVars>>

\* node retrieve_documents: the search returns a list of raw hits or fails;
\* then route_after_retrieval
RetrieveDocumentsNode ==
    /\ pc = "retrieve_documents"
    /\ clock' = clock + 1
    /\ trace' = Append(trace, "retrieve_documents")
    /\ calls' = Append(calls, [stage |-> "retrieve_documents",
                               nodes_visited |-> state.nodes_visited])
    /\ \E ok \in BOOLEAN, results \in SearchResults :
          /\ Len(results) <= 2 * RETRIEVAL_COUNTS(state.intent)
          /\ ~ok => results = <<>>
          /\ search' = [done |-> TRUE, ok |-> ok, results |-> results]
          /\ LET r == retrieve(state, search')
             IN  IF r.raised
                 THEN /\ Raise([type |-> "Exception", msg |-> "search failed",
                                node |-> "retrieve_documents"],
                               start_time, state.user_id)
                      /\ UNCHANGED state
                 ELSE /\ state' = r.state
                      /\ pc' = RetrievalEdges(route_after_retrieval(state'))
                      /\ UNCHANGED <<outcome, response, exc>>
    /\ UNCHANGED start_time
    /\ UNCHANGED <<streamVars, concVars, rankVars>>

\* a task node whose executor sets one output of the state, or fails; the
\* stage is recorded before the executor runs
TaskNode(node, output) ==
    /\ pc = node
    /\ clock' = clock + 1
    /\ trace' = Append(trace, node)
    /\ calls' = Append(calls, [stage |-> node,
                               nodes_visited |-> Append(state.nodes_visited, node)])
    /\ \/ /\ state' = output
          /\ pc' = TaskEdge(node)
          /\ UNCHANGED <<outcome, response, exc>>
       \/ /\ Raise([type |-> "GenerationError", msg |-> "generation failed",
                    node |-> node], start_time, state.user_id)
          /\ state' = [state EXCEPT !.nodes_visited = Append(@, node)]
    /\ UNCHANGED <<start_time, search>>
    /\ UNCHANGED <<streamVars, concVars, rankVars>>

GenerateAnswerNode ==
    TaskNode("generate_answer",
             [state EXCEPT !.generated_answer = "answer",
                           !.nodes_visited = Append(@, "generate_answer")])

EvaluateAnswerNode ==
    TaskNode("evaluate_answer",
             [state EXCEPT !.evaluation_result = "evaluation",
                           !.nodes_visited = Append(@, "evaluate_answer")])

GenerateQuestionsNode ==
    TaskNode("generate_questions",
             [state EXCEPT !.generated_questions = "questions",
                           !.nodes_visited = Append(@, "generate_questions")])

\* node resolve_doubt: the generation call returns an answer, or fails and
\* resolve re-raises it as a WorkflowNodeException
ResolveDoubtNode ==
    /\ pc = "resolve_doubt"
    /\ clock' = clock + 1
    /\ trace' = Append(trace, "resolve_doubt")
    /\ calls' = Append(calls, [stage |-> "resolve_doubt",
                               nodes_visited |-> state.nodes_visited])
    /\ \/ /\ state' = resolve(state, "answer")
          /\ pc' = TaskEdge("resolve_doubt")
          /\ UNCHANGED <<outcome, response, exc>>
       \/ /\ Raise([type |-> "WorkflowNodeException", msg |-> "generation failed",
                    node |-> "resolve_doubt"], start_time, state.user_id)
          /\ UNCHANGED state
    /\ UNCHANGED <<start_time, search>>
    /\ UNCHANGED <<streamVars, concVars, rankVars>>

\* the graph has ended: process_query stamps the final state and returns the
\* envelope _build_response makes of it
BuildResponse ==
    /\ pc = END
    /\ clock' = clock + 1
    /\ state' = [state EXCEPT !.processing_time = clock' - start_time,
                              !.status = "completed"]
    /\ \/ /\ response' = _build_response(state')
          /\ outcome' = "returned"
          /\ pc' = "done"
          /\ UNCHANGED exc
       \/ Raise([type |-> "KeyError", msg |-> "response", node |-> "_build_response"],
                start_time, state.user_id)
    /\ UNCHANGED <<start_time, trace, search, calls>>
    /\ UNCHANGED <<streamVars, concVars, rankVars>>

Next ==
    \/ ProcessQuery
    \/ ClassifyIntentNode
    \/ RetrieveDocumentsNode
    \/ GenerateAnswerNode
    \/ EvaluateAnswerNode
    \/ ResolveDoubtNode
    \/ GenerateQuestionsNode
    \/ BuildResponse

Spec == Init /\ [][Next]_vars

----------------------------------------------------------------------------
(* The retriever applied to one search result *)

\* longest search result of the few kinds of hit that all qualify
MaxLongHits == 6

RankSimilarities == {55, 60, 90}

\* what distinguishes one raw hit from another for the filter: owner,
\* visibility, document type and similarity
HitKinds == Users \X Visibilities \X DocTypes \X RankSimilarities

\* two public hits that qualify under every intent
FewKinds == {<<1, "public", "marking_scheme", 90>>, <<2, "public", "notes", 90>>}

\* the i-th hit of a search result, of kind k
RankHit(k, i) ==
    [document   |-> <<"chunk", i>>,
     metadata   |-> [document_id |-> <<k[1], k[2], k[3]>>, user_id |-> k[1],
                     visibility |-> k[2], document_type |-> k[3],
                     chunk_index |-> i],
     similarity |-> k[4]]

\* the search result whose i-th hit is of kind f[i]
HitSeq(f) == [i \in DOMAIN f |-> RankHit(f[i], i)]

\* hits of two types whose ranking mixes the types
GroupKinds == {<<1, "public", "notes", 90>>, <<1, "public", "other", 90>>,
               <<1, "public", "marking_scheme", 55>>, <<1, "public", "notes", 55>>}

MaxGroupHits == 3

\* the families of search results: every kind of hit in short results, the
\* qualifying kinds in long ones, the mixing kinds in between
RankFamilies ==
    { [kinds |-> HitKinds, n |-> MaxHits],
      [kinds |-> FewKinds, n |-> MaxLongHits],
      [kinds |-> GroupKinds, n |-> MaxGroupHits] }

RankInit ==
    /\ rk \in { [phase |-> "query", user_id |-> u, intent |-> i, results |-> <<>>,
                 scored |-> <<>>, state |-> create_initial_state(u, Query, None)] :
                u \in Users, i \in Intents }
    /\ PipelineInit /\ StreamOff /\ ConcOff

\* vector_store.search(n_results = n_results * 2): at most twice the
\* intent's count of raw hits come back
RankSearch ==
    /\ rk.phase = "query"
    /\ \E fam \in RankFamilies :
          \E len \in 0..fam.n :
              \E f \in [1..len -> fam.kinds] :
                  /\ len <= RETRIEVAL_COUNTS(rk.intent) * 2
                  /\ rk' = [rk EXCEPT !.phase = "searched", !.results = HitSeq(f)]
    /\ UNCHANGED <<pipelineVars, streamVars, concVars>>

\* the rest of retrieve: filter and rank, format, build the context
RankRetrieve ==
    /\ rk.phase = "searched"
    /\ LET st == [rk.state EXCEPT !.intent = rk.intent]
           r  == retrieve(st, [done |-> TRUE, ok |-> TRUE, results |-> rk.results])
       IN  rk' = [rk EXCEPT !.phase = "retrieved",
                            !.scored = ScoredResults(rk.results, rk.intent, rk.user_id),
                            !.state = r.state]
    /\ UNCHANGED <<pipelineVars, streamVars, concVars>>

RankNext == RankSearch \/ RankRetrieve

RankSpec == RankInit /\ [][RankNext]_vars

----------------------------------------------------------------------------
(* Properties *)

\* a raw hit the requesting user is not entitled to
Inaccessible(hit, user_id) ==
    hit.metadata.user_id # user_id /\ hit.metadata.visibility # "public"

\* the chunk texts that reached the context
ContextTexts(context) ==
    { context[i].chunk_text : i \in { j \in DOMAIN context : context[j].kind = "chunk" } }

\* C1: no raw hit that is neither owned by the requesting user nor public
\* appears among retrieved_documents or in the context, whatever the search
\* returned, the intent and the user.
C1_AccessFilterAbsolute ==
    search.done =>
        \A i \in DOMAIN search.results :
            Inaccessible(search.results[i], state.user_id) =>
                /\ \A k \in DOMAIN state.retrieved_documents :
                      /\ state.retrieved_documents[k].chunk_text # search.results[i].document
                      /\ state.retrieved_documents[k].metadata # search.results[i].metadata
                /\ search.results[i].document \notin ContextTexts(state.context)

\* C1 witness: the search returned a hit the user may not see next to one
\* that was retrieved.
C1_Witness ==
    /\ search.done
    /\ \E i \in DOMAIN search.results : Inaccessible(search.results[i], state.user_id)
    /\ state.retrieved_documents # <<>>
    /\ state.context # <<>>

\* C2: when the search fails, retrieve does not raise: the run holds an empty
\* document list, an empty context and no document types, no exception left
\* the retrieval stage, and the run stands at its task stage.
C2_RetrievalBestEffort ==
    (search.done /\ ~search.ok) =>
        /\ state.retrieved_documents = <<>>
        /\ state.context = <<>>
        /\ state.document_types_available = {}
        /\ exc.node # "retrieve_documents"
        /\ outcome # "raised"
        /\ (Len(trace) = 2 /\ state.intent # "EXAM_PAPER_GENERATION") =>
              (pc \in TaskNodes /\ outcome = "none")

\* C2 witness: the search failed and the run has entered its task stage.
C2_Witness ==
    /\ search.done
    /\ ~search.ok
    /\ Len(trace) = 3
    /\ exc = NoExc

\* C3: no exception escapes process_query: an exception raised while the
\* initial state is created, in a stage or while the response is built ends
\* in a returned failure envelope with its message, its type and the
\* processing time.
C3_NoExceptionEscapes ==
    /\ outcome # "raised"
    /\ exc # NoExc =>
          /\ outcome = "returned"
          /\ response.success = FALSE
          /\ response.error = exc.msg
          /\ response.error_type = exc.type
          /\ "processing_time" \in DOMAIN response
          /\ response.processing_time = clock - start_time

\* C3 witness: a task stage raised.
C3_Witness ==
    /\ exc.node \in TaskNodes
    /\ pc = "done"

\* C4: a run classified as exam paper generation ends after retrieval in a
\* failure that names the unsupported intent, not in a success envelope.
C4_UnsupportedIntentFails ==
    (/\ outcome = "returned"
     /\ state.intent = "EXAM_PAPER_GENERATION"
     /\ trace = <<"classify_intent", "retrieve_documents">>
     /\ exc = NoExc) =>
        /\ response.success = FALSE
        /\ response.error_type = "UnsupportedIntent"

\* C5: when classification fails or the intent is unrecognized, the run ends
\* after the classify stage alone and process_query returns a failure
\* envelope.
C5_ClassificationFailureFails ==
    (/\ outcome = "returned"
     /\ trace # <<>>
     /\ (exc.node = "classify_intent" \/ state.intent = None)) =>
        /\ trace = <<"classify_intent">>
        /\ response.success = FALSE

\* C6: the nodes_visited of a successfully completed answer generation query
\* is classify_intent, retrieve_documents, generate_answer.
C6_RouterTrace ==
    (/\ outcome = "returned"
     /\ response.success
     /\ state.intent = "ANSWER_GENERATION") =>
        response.nodes_visited = <<"classify_intent", "retrieve_documents", "generate_answer">>

\* C7: the stages run form a path of the graph: classify_intent first, then
\* retrieve_documents, then one task, each at most once, at most three in
\* all, and after the third the graph has ended; a run that has not returned
\* can always take its next step, and every step is counted, so every run
\* ends within the three stages.
C7_FiniteAcyclic ==
    /\ Len(trace) <= 3
    /\ \A i, j \in DOMAIN trace : i # j => trace[i] # trace[j]
    /\ Len(trace) >= 1 => trace[1] = "classify_intent"
    /\ Len(trace) >= 2 => trace[2] = "retrieve_documents"
    /\ Len(trace) >= 3 => trace[3] \in TaskNodes
    /\ pc = "classify_intent" => trace = <<>>
    /\ pc = "retrieve_documents" => trace = <<"classify_intent">>
    /\ pc \in TaskNodes => trace = <<"classify_intent", "retrieve_documents">>
    /\ pc = END => Len(trace) \in 1..3
    /\ Len(trace) = 3 => pc \in {END, "done"}
    /\ pc # "done" => ENABLED Next
    /\ clock - start_time <= Len(trace) + 2

\* C7 witness: a run went through three stages and reached the end.
C7_Witness ==
    /\ Len(trace) = 3
    /\ pc = END

\* the task stage of an intent
TaskOfIntent(intent) ==
    CASE intent = "ANSWER_GENERATION"   -> "generate_answer"
      [] intent = "ANSWER_EVALUATION"   -> "evaluate_answer"
      [] intent = "DOUBT_CLARIFICATION" -> "resolve_doubt"
      [] intent = "QUESTION_GENERATION" -> "generate_questions"

\* C8: after retrieval a run of one of the four task intents executes its own
\* task executor, exactly one, and no other.
C8_IntentToTask ==
    (state.intent \in Intents \ {"EXAM_PAPER_GENERATION"}) =>
        /\ pc \in TaskNodes => pc = TaskOfIntent(state.intent)
        /\ Cardinality({ i \in DOMAIN trace : trace[i] \in TaskNodes }) <= 1
        /\ \A i \in DOMAIN trace :
              trace[i] \in TaskNodes => trace[i] = TaskOfIntent(state.intent)
        /\ (pc \in {END, "done"} /\ Len(trace) >= 2 /\ exc.node # "retrieve_documents") =>
              (Len(trace) = 3 /\ trace[3] = TaskOfIntent(state.intent))

\* C8 witness: an evaluation run executed evaluate_answer.
C8_Witness ==
    /\ state.intent = "ANSWER_EVALUATION"
    /\ Len(trace) = 3
    /\ trace[3] = "evaluate_answer"
    /\ pc = END

\* the task outputs an envelope carries
OutputKeys == {"answer", "evaluation", "response", "questions"}

\* C9: every success envelope carries exactly one task output.
C9_ExactlyOneOutput ==
    (outcome = "returned" /\ response.success) =>
        Cardinality(DOMAIN response \cap OutputKeys) = 1

\* C10 as stated: the metadata of every success envelope holds
\* document_types_used, num_documents_retrieved and context_length, whatever
\* retrieval found (stated for the runs that completed a task stage).
C10_MetadataAllThree ==
    (outcome = "returned" /\ response.success /\ Len(trace) = 3) =>
        {"document_types_used", "num_documents_retrieved", "context_length"}
            \subseteq DOMAIN response.metadata

\* C10 amended: the metadata of every success envelope holds
\* document_types_used and num_documents_retrieved, and holds context_length
\* exactly when at least one document was retrieved.
C10_MetadataAmended ==
    (outcome = "returned" /\ response.success) =>
        /\ {"document_types_used", "num_documents_retrieved"}
              \subseteq DOMAIN response.metadata
        /\ response.metadata.num_documents_retrieved = Len(state.retrieved_documents)
        /\ "context_length" \in DOMAIN response.metadata
              <=> state.retrieved_documents # <<>>

\* C10 witness: a success envelope after a failed search.
C10_Witness ==
    /\ outcome = "returned"
    /\ response.success
    /\ Len(trace) = 3
    /\ search.done
    /\ ~search.ok

\* the names a stage may be recorded under: the graph's and its handler's own
StageNames(stage) ==
    CASE stage = "retrieve_documents" -> {"retrieve_documents", "document_retriever"}
      [] stage = "resolve_doubt"      -> {"resolve_doubt", "doubt_resolver"}
      [] OTHER                        -> {stage}

Last(s) == s[Len(s)]

\* C20: a stage's name is appended to nodes_visited before its handler works:
\* every external call (search, generation) is made with nodes_visited
\* already ending in the stage's name, and a stage that failed is the last
\* entry of nodes_visited.
C20_RecordedBeforeHandler ==
    /\ \A i \in DOMAIN calls :
          /\ calls[i].nodes_visited # <<>>
          /\ Last(calls[i].nodes_visited) \in StageNames(calls[i].stage)
    /\ exc.node \in Nodes =>
          /\ state.nodes_visited # <<>>
          /\ Last(state.nodes_visited) \in StageNames(exc.node)

----------------------------------------------------------------------------
(* Properties of the retriever *)

\* the intent's default count of documents
ExpectedLimit(intent) ==
    CASE intent = "ANSWER_GENERATION"     -> 10
      [] intent = "ANSWER_EVALUATION"     -> 5
      [] intent = "DOUBT_CLARIFICATION"   -> 8
      [] intent = "QUESTION_GENERATION"   -> 10
      [] intent = "EXAM_PAPER_GENERATION" -> 15

\* (L - i) * 0.1 worked out for every intent and document type
ExpectedBoost(intent, doc_type) ==
    CASE intent = "ANSWER_GENERATION" /\ doc_type = "marking_scheme"     -> 30
      [] intent = "ANSWER_GENERATION" /\ doc_type = "notes"              -> 20
      [] intent = "ANSWER_GENERATION" /\ doc_type = "question_paper"     -> 10
      [] intent = "ANSWER_EVALUATION" /\ doc_type = "marking_scheme"     -> 10
      [] intent = "DOUBT_CLARIFICATION" /\ doc_type = "notes"            -> 20
      [] intent = "DOUBT_CLARIFICATION" /\ doc_type = "marking_scheme"   -> 10
      [] intent = "QUESTION_GENERATION" /\ doc_type = "notes"            -> 20
      [] intent = "QUESTION_GENERATION" /\ doc_type = "question_paper"   -> 10
      [] intent = "EXAM_PAPER_GENERATION" /\ doc_type = "notes"          -> 30
      [] intent = "EXAM_PAPER_GENERATION" /\ doc_type = "question_paper" -> 20
      [] intent = "EXAM_PAPER_GENERATION" /\ doc_type = "marking_scheme" -> 10
      [] OTHER                                                           -> 0

\* the ranking score a retrieved document was ranked by
ExpectedScore(intent, doc) ==
    doc.similarity_score + ExpectedBoost(intent, doc.document_type)

\* the raw hits the requesting user may see whose boosted score reaches 0.7
Qualifying ==
    { i \in DOMAIN rk.results :
         /\ ~Inaccessible(rk.results[i], rk.user_id)
         /\ rk.results[i].similarity
              + ExpectedBoost(rk.intent, rk.results[i].metadata.document_type) >= 70 }

\* C15: retrieve returns at most the intent's default count of documents
\* (10, 5, 8, 10, 15) although the search was asked for twice as many, as
\* many as qualify up to that count, and none for an empty search result.
C15_AtMostLimit ==
    rk.phase = "retrieved" =>
        /\ Len(rk.state.retrieved_documents) <= ExpectedLimit(rk.intent)
        /\ Len(rk.state.retrieved_documents) <= Len(rk.results)
        /\ Cardinality(Qualifying) <= ExpectedLimit(rk.intent) =>
              Len(rk.state.retrieved_documents) = Cardinality(Qualifying)
        /\ rk.results = <<>> => rk.state.retrieved_documents = <<>>

\* C15 witness: more hits qualified than the limit and the list was cut.
C15_Witness ==
    /\ rk.phase = "retrieved"
    /\ Cardinality(Qualifying) > ExpectedLimit(rk.intent)
    /\ Len(rk.state.retrieved_documents) = ExpectedLimit(rk.intent)

\* C16: the retrieved documents are in descending order of boosted score,
\* documents of equal score in search order; so of two documents of equal
\* similarity the one whose type comes earlier in the intent's priority list
\* is ranked first.
C16_SortedStable ==
    rk.phase = "retrieved" =>
        LET docs == rk.state.retrieved_documents
            prio == DOCUMENT_TYPE_PRIORITIES(rk.intent)
        IN  \A a, b \in DOMAIN docs :
                a < b =>
                    /\ \/ ExpectedScore(rk.intent, docs[a]) > ExpectedScore(rk.intent, docs[b])
                       \/ /\ ExpectedScore(rk.intent, docs[a]) = ExpectedScore(rk.intent, docs[b])
                          /\ docs[a].metadata.chunk_index < docs[b].metadata.chunk_index
                    /\ ~ (/\ docs[a].similarity_score = docs[b].similarity_score
                          /\ docs[a].document_type \in Range(prio)
                          /\ docs[b].document_type \in Range(prio)
                          /\ IndexOf(prio, docs[b].document_type)
                               < IndexOf(prio, docs[a].document_type))

\* C16 witness: under doubt clarification a marking scheme came before notes
\* of the same similarity in the search and is ranked behind it.
C16_Witness ==
    /\ rk.phase = "retrieved"
    /\ rk.intent = "DOUBT_CLARIFICATION"
    /\ Len(rk.state.retrieved_documents) = 2
    /\ rk.state.retrieved_documents[1].document_type = "notes"
    /\ rk.state.retrieved_documents[2].document_type = "marking_scheme"
    /\ rk.state.retrieved_documents[1].similarity_score = 90
    /\ rk.state.retrieved_documents[2].similarity_score = 90
    /\ rk.state.retrieved_documents[2].metadata.chunk_index = 1

\* C17: the ranking score of a hit is its similarity plus (L - i) * 0.1 for
\* a type at position i of the intent's priority list of length L, and its
\* similarity for any other type: never below the similarity, above it
\* exactly for the prioritized types.
C17_BoostFormula ==
    rk.phase = "retrieved" =>
        \A k \in DOMAIN rk.scored :
            LET hit      == rk.scored[k].result
                doc_type == hit.metadata.document_type
                prio     == DOCUMENT_TYPE_PRIORITIES(rk.intent)
            IN  /\ rk.scored[k].score = hit.similarity + ExpectedBoost(rk.intent, doc_type)
                /\ rk.scored[k].score >= hit.similarity
                /\ rk.scored[k].score > hit.similarity <=> doc_type \in Range(prio)
                /\ doc_type \in Range(prio) =>
                      rk.scored[k].score
                        = hit.similarity + (Len(prio) - IndexOf(prio, doc_type)) * 10

\* C17 witness: under answer evaluation a marking scheme hit is boosted and a
\* notes hit is not.
C17_Witness ==
    /\ rk.phase = "retrieved"
    /\ rk.intent = "ANSWER_EVALUATION"
    /\ \E a, b \in DOMAIN rk.scored :
          /\ rk.scored[a].result.metadata.document_type = "marking_scheme"
          /\ rk.scored[a].score > rk.scored[a].result.similarity
          /\ rk.scored[b].result.metadata.document_type = "notes"
          /\ rk.scored[b].score = rk.scored[b].result.similarity

\* C18: a hit the user may see is kept exactly when its similarity plus
\* boost reaches the threshold of 0.7, whatever its similarity alone.
C18_ThresholdAfterBoost ==
    rk.phase = "retrieved" =>
        /\ { rk.scored[k].result.metadata.chunk_index : k \in DOMAIN rk.scored } = Qualifying
        /\ Cardinality(Qualifying) <= ExpectedLimit(rk.intent) =>
              { rk.state.retrieved_documents[k].metadata.chunk_index :
                   k \in DOMAIN rk.state.retrieved_documents } = Qualifying

\* C18 witness: a hit of similarity below 0.7 was kept for its boost, one
\* was kept at exactly 0.7, and one the user may see was dropped.
C18_Witness ==
    /\ rk.phase = "retrieved"
    /\ \E k \in DOMAIN rk.state.retrieved_documents :
          /\ rk.state.retrieved_documents[k].similarity_score = 60
          /\ ExpectedScore(rk.intent, rk.state.retrieved_documents[k]) = 70
    /\ \E i \in DOMAIN rk.results :
          /\ ~Inaccessible(rk.results[i], rk.user_id)
          /\ i \notin Qualifying

\* C19: the similarity_score of a retrieved document, and the similarity in
\* its context label, is the similarity the search gave the hit, not the
\* boosted score.
C19_BoostNeverLeaks ==
    rk.phase = "retrieved" =>
        /\ \A k \in DOMAIN rk.state.retrieved_documents :
              LET doc == rk.state.retrieved_documents[k]
              IN  /\ doc.metadata.chunk_index \in DOMAIN rk.results
                  /\ doc.similarity_score = rk.results[doc.metadata.chunk_index].similarity
                  /\ doc.chunk_text = rk.results[doc.metadata.chunk_index].document
        /\ \A p \in DOMAIN rk.state.context :
              rk.state.context[p].kind = "chunk" =>
                  \E i \in DOMAIN rk.results :
                      /\ rk.results[i].document = rk.state.context[p].chunk_text
                      /\ rk.results[i].similarity = rk.state.context[p].similarity

\* C19 witness: a boosted hit was retrieved and put in the context.
C19_Witness ==
    /\ rk.phase = "retrieved"
    /\ rk.state.context # <<>>
    /\ \E k \in DOMAIN rk.state.retrieved_documents :
          ExpectedScore(rk.intent, rk.state.retrieved_documents[k])
            > rk.state.retrieved_documents[k].similarity_score

----------------------------------------------------------------------------
(* stream_query: one streaming request over the messages table *)

MaxChunks == 2

MaxOtherSaves == 1

\* ORDER BY id DESC LIMIT 10
HistoryLimit == 10

StreamQueries == {"q1", "q2"}

\* what llm_service.chat_stream may yield
Chunks == {"a", "b", ""}

\* a row of the messages table; id is the AUTOINCREMENT key
MessageRow(id, conversation_id, role, content, intent, metadata) ==
    [id |-> id, conversation_id |-> conversation_id, role |-> role,
     content |-> content, intent |-> intent, metadata |-> metadata]

\* contents of earlier turns of conversation 1
PriorContents == <<"m1", "m2", "m3", "m4", "m5", "m6", "m7", "m8", "m9", "m10", "m11">>

PriorRows(contents) ==
    [i \in DOMAIN contents |->
        MessageRow(i, 1, IF i % 2 = 1 THEN "user" ELSE "assistant",
                   contents[i], None, None)]

\* the messages table before the request: empty, one earlier turn that asked
\* "q1", or eleven earlier messages
PriorHistories == {<<>>, PriorRows(<<"q1", "a1">>), PriorRows(PriorContents)}

\* what vector_store.search gives the retriever of the request
StreamSearches ==
    { [done |-> TRUE, ok |-> FALSE, results |-> <<>>],
      [done |-> TRUE, ok |-> TRUE, results |-> <<>>],
      [done |-> TRUE, ok |-> TRUE,
       results |-> <<RankHit(<<1, "public", "notes", 90>>, 1)>>],
      [done |-> TRUE, ok |-> TRUE,
       results |-> <<RankHit(<<1, "private", "notes", 90>>, 1),
                     RankHit(<<2, "private", "notes", 90>>, 2)>>] }

\* create_conversation: INSERT INTO conversations, returns lastrowid
create_conversation(d, user_id) ==
    LET id == Len(d.conversations) + 1
    IN  [id |-> id,
         db |-> [d EXCEPT !.conversations = Append(@, [id |-> id, user_id |-> user_id])]]

\* save_message: INSERT INTO messages
save_message(d, conversation_id, role, content, intent, metadata) ==
    [d EXCEPT !.messages =
        Append(@, MessageRow(Len(d.messages) + 1, conversation_id, role,
                             content, intent, metadata))]

\* the rows of a conversation, oldest first
ConversationRows(d, conversation_id) ==
    SelectSeq(d.messages, LAMBDA row : row.conversation_id = conversation_id)

\* faulty variant: the rows stay as the query gave them, newest first
FetchHistoryRows_NewestFirst(d, conversation_id) ==
    LET rows == ConversationRows(d, conversation_id)
        n    == Len(rows)
        k    == IF n > HistoryLimit THEN HistoryLimit ELSE n
    IN  [i \in 1..k |-> rows[n - i + 1]]

\* SELECT ... ORDER BY id DESC LIMIT 10, then [::-1]
FetchHistoryRows(d, conversation_id) ==
    LET rows == ConversationRows(d, conversation_id)
        n    == Len(rows)
    IN  SubSeq(rows, IF n > HistoryLimit THEN n - HistoryLimit + 1 ELSE 1, n)

\* faulty variant: the last row is kept whatever it holds
DropCurrent_Kept(history_rows, query) == history_rows

\* lines 328-329: drop the last row when its content is the query
DropCurrent(history_rows, query) ==
    IF history_rows # <<>> /\ history_rows[Len(history_rows)].content = query
    THEN SubSeq(history_rows, 1, Len(history_rows) - 1)
    ELSE history_rows

\* lines 313-322: the system prompt is the notes variant for a truthy
\* context, the general variant otherwise
SystemPromptText(context) ==
    IF context # <<>> THEN "DOUBT_RESOLVER_SYSTEM"
    ELSE "DOUBT_RESOLVER_GENERAL_SYSTEM"

\* lines 318 and 322: encoded_source
EncodedSource(context) ==
    IF context # <<>> THEN "notes" ELSE "general_knowledge"

\* faulty variant: the query is wrapped in the template whatever the context
FinalQuery_AlwaysTemplate(context, query) ==
    [role |-> "user", template |-> "context_injection",
     content |-> query, context |-> context]

\* lines 313-322 and 335: final_query is the query inside the context
\* template ("Context information is below. ... {context} ... Query:
\* {query}") for a truthy context, and the query itself otherwise
FinalQuery(context, query) ==
    IF context # <<>>
    THEN [role |-> "user", template |-> "context_injection",
          content |-> query, context |-> context]
    ELSE [role |-> "user", template |-> "none",
          content |-> query, context |-> <<>>]

\* lines 324-335: system prompt, history, then the final user message
BuildMessages(history_rows, context, query) ==
    <<[role |-> "system", template |-> "none",
       content |-> SystemPromptText(context), context |-> <<>>]>>
    \o [i \in DOMAIN DropCurrent(history_rows, query) |->
          [role |-> DropCurrent(history_rows, query)[i].role,
           template |-> "none",
           content |-> DropCurrent(history_rows, query)[i].content,
           context |-> <<>>]]
    \o <<FinalQuery(context, query)>>

\* faulty variant: the new chunk is put in front
Accumulate_Prepend(full_response, chunk) == chunk \o full_response

\* full_response += chunk
Accumulate(full_response, chunk) == full_response \o chunk

\* faulty variant: the except clause saves an apology as the answer
OnStreamError_SaveApology(d, s) ==
    save_message(d, s.conversation_id, "assistant", "Sorry, something went wrong.",
                 "doubt_clarification",
                 [source |-> "general_knowledge", streamed |-> TRUE])

\* faulty variant: the except clause saves what was accumulated
OnStreamError_SavePartial(d, s) ==
    save_message(d, s.conversation_id, "assistant", s.full_response,
                 "doubt_clarification",
                 [source |-> s.encoded_source, streamed |-> TRUE])

\* lines 359-361: the except clause writes nothing to the table
OnStreamError(d, s) == d

StatusEvent(message) == [type |-> "status", message |-> message]

InfoEvent(retrieved_docs) ==
    [type |-> "info",
     message |-> IF retrieved_docs # <<>>
                 THEN <<"Found", Len(retrieved_docs), "relevant notes">>
                 ELSE <<"Using general knowledge">>]

ChunkEvent(chunk) == [type |-> "chunk", content |-> chunk]

DoneEvent(conversation_id) == [type |-> "done", conversation_id |-> conversation_id]

ErrorEvent(message) == [type |-> "error", message |-> message]

\* a request has arrived, naming conversation 1 of user 1 or no conversation
\* (0, as falsy as None)
StreamInit ==
    /\ \E prior \in PriorHistories :
          db = [conversations |-> <<[id |-> 1, user_id |-> 1]>>,
                messages |-> prior, others |-> 0]
    /\ \E u \in Users, q \in StreamQueries, c \in {0, 1} :
          sq = [pc |-> "request", user_id |-> u, query |-> q, conversation_id |-> c,
                saved_id |-> 0, history_rows |-> <<>>, context |-> <<>>,
                retrieved_docs |-> <<>>, messages |-> <<>>,
                full_response |-> "", encoded_source |-> None]
    /\ events = <<>>
    /\ llm = [produced |-> <<>>, ended |-> FALSE, failed |-> FALSE]
    /\ client = "connected"
    /\ PipelineInit /\ ConcOff /\ RankOff

\* lines 244-255 and 363: the conversation is created if needed, the user
\* message saved, the response with the generator returned
StreamQuery ==
    /\ sq.pc = "request"
    /\ LET made == IF sq.conversation_id = 0
                   THEN create_conversation(db, sq.user_id)
                   ELSE [id |-> sq.conversation_id, db |-> db]
           d    == save_message(made.db, made.id, "user", sq.query, None, None)
       IN  /\ db' = d
           /\ sq' = [sq EXCEPT !.pc = "start", !.conversation_id = made.id,
                               !.saved_id = Len(d.messages)]
    /\ UNCHANGED <<events, llm, client, pipelineVars, concVars, rankVars>>

\* line 260
GenStart ==
    /\ sq.pc = "start"
    /\ events' = Append(events, StatusEvent("Fetching history..."))
    /\ sq' = [sq EXCEPT !.pc = "fetching"]
    /\ UNCHANGED <<db, llm, client, pipelineVars, concVars, rankVars>>

\* lines 262-281
FetchHistory ==
    /\ sq.pc = "fetching"
    /\ events' = Append(events, StatusEvent("Searching knowledge base..."))
    /\ sq' = [sq EXCEPT !.pc = "searching",
                        !.history_rows = FetchHistoryRows(db, sq.conversation_id)]
    /\ UNCHANGED <<db, llm, client, pipelineVars, concVars, rankVars>>

\* lines 284-301
StreamRetrieve ==
    /\ sq.pc = "searching"
    /\ \E s \in StreamSearches :
          LET st == [create_initial_state(sq.user_id, sq.query, None)
                        EXCEPT !.intent = "DOUBT_CLARIFICATION"]
              r  == retrieve(st, s)
          IN  /\ sq' = [sq EXCEPT !.pc = "info", !.context = r.state.context,
                                  !.retrieved_docs = r.state.retrieved_documents]
              /\ events' = Append(events, InfoEvent(r.state.retrieved_documents))
    /\ UNCHANGED <<db, llm, client, pipelineVars, concVars, rankVars>>

\* line 304
Thinking ==
    /\ sq.pc = "info"
    /\ events' = Append(events, StatusEvent("Thinking..."))
    /\ sq' = [sq EXCEPT !.pc = "thinking"]
    /\ UNCHANGED <<db, llm, client, pipelineVars, concVars, rankVars>>

\* lines 306-343: the messages are assembled and the generation is asked for
StreamBuild ==
    /\ sq.pc = "thinking"
    /\ sq' = [sq EXCEPT !.pc = "generating",
                        !.encoded_source = EncodedSource(sq.context),
                        !.messages = BuildMessages(sq.history_rows, sq.context, sq.query),
                        !.full_response = ""]
    /\ UNCHANGED <<db, events, llm, client, pipelineVars, concVars, rankVars>>

\* lines 339-345: one chunk arrives, is accumulated and forwarded
StreamChunk ==
    /\ sq.pc = "generating"
    /\ Len(llm.produced) < MaxChunks
    /\ \E chunk \in Chunks :
          /\ llm' = [llm EXCEPT !.produced = Append(@, chunk)]
          /\ sq' = [sq EXCEPT !.full_response = Accumulate(@, chunk)]
          /\ events' = Append(events, ChunkEvent(chunk))
    /\ UNCHANGED <<db, client, pipelineVars, concVars, rankVars>>

\* lines 347-357: the generation ended; the answer is saved and done sent
StreamEnd ==
    /\ sq.pc = "generating"
    /\ llm' = [llm EXCEPT !.ended = TRUE]
    /\ db' = save_message(db, sq.conversation_id, "assistant", sq.full_response,
                          "doubt_clarification",
                          [source |-> sq.encoded_source, streamed |-> TRUE])
    /\ events' = Append(events, DoneEvent(sq.conversation_id))
    /\ sq' = [sq EXCEPT !.pc = "done"]
    /\ UNCHANGED <<client, pipelineVars, concVars, rankVars>>

\* lines 359-361: the generation raised
StreamError ==
    /\ sq.pc = "generating"
    /\ llm' = [llm EXCEPT !.failed = TRUE]
    /\ db' = OnStreamError(db, sq)
    /\ events' = Append(events, ErrorEvent("generation failed"))
    /\ sq' = [sq EXCEPT !.pc = "error"]
    /\ UNCHANGED <<client, pipelineVars, concVars, rankVars>>

\* lines 262-292 and 359-361: the history query or the set-up of the
\* retrieval raised
StreamStepError ==
    /\ sq.pc \in {"fetching", "searching"}
    /\ db' = OnStreamError(db, sq)
    /\ events' = Append(events, ErrorEvent("step failed"))
    /\ sq' = [sq EXCEPT !.pc = "error"]
    /\ UNCHANGED <<llm, client, pipelineVars, concVars, rankVars>>

\* lines 347-361: the generation ended and save_message raised
StreamSaveError ==
    /\ sq.pc = "generating"
    /\ llm' = [llm EXCEPT !.ended = TRUE]
    /\ db' = OnStreamError(db, sq)
    /\ events' = Append(events, ErrorEvent("save failed"))
    /\ sq' = [sq EXCEPT !.pc = "error"]
    /\ UNCHANGED <<client, pipelineVars, concVars, rankVars>>

\* the client went away: the suspended generator is cancelled, which no
\* except Exception clause catches
Disconnect ==
    /\ sq.pc \in {"start", "fetching", "searching", "info", "thinking", "generating"}
    /\ client' = "disconnected"
    /\ sq' = [sq EXCEPT !.pc = "closed"]
    /\ UNCHANGED <<db, events, llm, pipelineVars, concVars, rankVars>>

\* lines 251-255 of another request on the same conversation
OtherSave ==
    /\ sq.pc \notin {"request", "done", "error", "closed"}
    /\ db.others < MaxOtherSaves
    /\ \E q \in StreamQueries :
          db' = [save_message(db, sq.conversation_id, "user", q, None, None)
                    EXCEPT !.others = @ + 1]
    /\ UNCHANGED <<sq, events, llm, client, pipelineVars, concVars, rankVars>>

StreamNext ==
    \/ StreamQuery \/ GenStart \/ FetchHistory \/ StreamRetrieve \/ Thinking
    \/ StreamBuild \/ StreamChunk \/ StreamEnd \/ StreamError \/ Disconnect
    \/ OtherSave \/ StreamStepError \/ StreamSaveError

StreamSpec == StreamInit /\ [][StreamNext]_vars

----------------------------------------------------------------------------
(* Properties of the streaming request *)

\* the rows saved as a completed streamed answer
StreamedRows ==
    { i \in DOMAIN db.messages :
         /\ db.messages[i].role = "assistant"
         /\ db.messages[i].intent = "doubt_clarification"
         /\ db.messages[i].metadata.streamed }

RECURSIVE Concat(_)
Concat(chunks) ==
    IF chunks = <<>> THEN "" ELSE Head(chunks) \o Concat(Tail(chunks))

ChunkEvents == SelectSeq(events, LAMBDA e : e.type = "chunk")

\* C11: the assistant message with streamed:true is saved only after the
\* generation stream was consumed to its end; a request that was cut off by
\* a disconnect, or whose generation raised, saves no such message, so a
\* partial text is never stored as a complete answer.
C11_NoSaveUnlessEnded ==
    /\ StreamedRows # {} => llm.ended /\ ~llm.failed /\ sq.pc = "done"
    /\ sq.pc \in {"closed", "error"} => StreamedRows = {}
    /\ Cardinality(StreamedRows) <= 1

\* C11 witness: the client went away after a chunk had been forwarded, and
\* nothing was saved.
C11_Witness ==
    /\ sq.pc = "closed"
    /\ client = "disconnected"
    /\ sq.full_response # ""
    /\ ChunkEvents # <<>>
    /\ StreamedRows = {}

\* C12: the chunk events are the chunks of the generation stream, one event
\* each, in the order they were produced, and the content saved at the end
\* is their concatenation in that order.
C12_ChunksInOrder ==
    /\ Len(ChunkEvents) = Len(llm.produced)
    /\ \A i \in DOMAIN ChunkEvents : ChunkEvents[i].content = llm.produced[i]
    /\ sq.pc = "generating" => sq.full_response = Concat(llm.produced)
    /\ \A i \in StreamedRows :
          /\ db.messages[i].content = Concat(llm.produced)
          /\ db.messages[i].content = Concat([k \in DOMAIN ChunkEvents |->
                                                 ChunkEvents[k].content])

\* C12 witness: two different chunks were forwarded and the answer saved.
C12_Witness ==
    /\ sq.pc = "done"
    /\ llm.produced = <<"a", "b">>
    /\ \E i \in StreamedRows : db.messages[i].content = "ab"

\* the message the request saved was the last row of the history it fetched
CurrentQueryIsLast ==
    /\ sq.history_rows # <<>>
    /\ sq.history_rows[Len(sq.history_rows)].id = sq.saved_id

\* C13: when the last persisted message is the query the request has just
\* saved, it is left out of the history: the assembled messages are the
\* system prompt, the fetched rows but the last, and the query as the final
\* user message.
C13_CurrentQueryOnce ==
    sq.messages # <<>> /\ CurrentQueryIsLast =>
        LET n == Len(sq.history_rows)
        IN  /\ Len(sq.messages) = n + 1
            /\ sq.messages[1].role = "system"
            /\ \A i \in 1..(n - 1) :
                  /\ sq.history_rows[i].id # sq.saved_id
                  /\ sq.messages[i + 1].role = sq.history_rows[i].role
                  /\ sq.messages[i + 1].content = sq.history_rows[i].content
            /\ sq.messages[n + 1].role = "user"
            /\ sq.messages[n + 1].content = sq.query

\* C13 witness: a history with earlier messages ended in the saved query and
\* the messages were assembled.
C13_Witness ==
    /\ sq.messages # <<>>
    /\ CurrentQueryIsLast
    /\ Len(sq.history_rows) = HistoryLimit
    /\ Len(sq.messages) = HistoryLimit + 1

----------------------------------------------------------------------------
(* Concurrent process_query runs on the one orchestrator and retriever *)

Runs == {1, 2}

\* each run asks its own text
RunQuery(r) == IF r = 1 THEN "q1" ELSE "q2"

\* what the generation call answers to a query
AnswerTo(query) == "answer to " \o query

\* what vector_store.search may give a run
ConcSearches ==
    { [done |-> TRUE, ok |-> FALSE, results |-> <<>>],
      [done |-> TRUE, ok |-> TRUE, results |-> <<>>],
      [done |-> TRUE, ok |-> TRUE,
       results |-> <<RankHit(<<1, "private", "notes", 90>>, 1),
                     RankHit(<<2, "private", "notes", 90>>, 2)>>],
      [done |-> TRUE, ok |-> TRUE,
       results |-> <<RankHit(<<1, "public", "marking_scheme", 90>>, 1),
                     RankHit(<<2, "private", "notes", 90>>, 2),
                     RankHit(<<1, "private", "notes", 90>>, 3)>>] }

\* get_workflow: the singleton is created by the first call
get_workflow(sh) ==
    IF sh.workflow_instance = None
    THEN [sh EXCEPT !.workflow_instance = "WorkflowOrchestrator"]
    ELSE sh

\* lines 62-68 of retrieve: the global retriever takes the vector store at
\* its first use
InitVectorStore(sh) ==
    IF sh.vector_store = None
    THEN [sh EXCEPT !.vector_store = "vector_store"]
    ELSE sh

\* faulty variant: the retriever keeps the state on the global instance, so
\* what it returns reaches every run that is under way
retrieve_documents_node_OnInstance(rs, r, s) ==
    [q \in DOMAIN rs |->
        IF q = r \/ rs[q].pc \in Nodes
        THEN [rs[q] EXCEPT !.state = retrieve(rs[r].state, s).state]
        ELSE rs[q]]

\* the node function: the global retriever works on the state it is given
retrieve_documents_node(rs, r, s) ==
    [rs EXCEPT ![r].state = retrieve(rs[r].state, s).state]

\* what each task node writes to the state
TaskResult(st, node) ==
    CASE node = "generate_answer" ->
            [st EXCEPT !.generated_answer = AnswerTo(st.query),
                       !.nodes_visited = Append(@, "generate_answer")]
      [] node = "evaluate_answer" ->
            [st EXCEPT !.evaluation_result = AnswerTo(st.query),
                       !.nodes_visited = Append(@, "evaluate_answer")]
      [] node = "generate_questions" ->
            [st EXCEPT !.generated_questions = AnswerTo(st.query),
                       !.nodes_visited = Append(@, "generate_questions")]
      [] node = "resolve_doubt" -> resolve(st, AnswerTo(st.query))

\* two requests have arrived; nothing has been created yet
ConcInit ==
    /\ \E u \in [Runs -> Users] :
          runs = [r \in Runs |->
                    [pc |-> "idle", user_id |-> u[r], query |-> RunQuery(r),
                     state |-> <<>>, response |-> <<>>, start_time |-> 0,
                     search |-> NoSearch]]
    /\ shared = [workflow_instance |-> None, vector_store |-> None,
                 clock |-> 0, actor |-> 0]
    /\ PipelineInit /\ StreamOff /\ RankOff

\* process_query of run r up to the start of the graph
ConcProcessQuery(r) ==
    /\ runs[r].pc = "idle"
    /\ shared' = [get_workflow(shared) EXCEPT !.clock = @ + 1, !.actor = r]
    /\ runs' = [runs EXCEPT
                  ![r].start_time = shared.clock,
                  ![r].state = [create_initial_state(runs[r].user_id, runs[r].query, None)
                                   EXCEPT !.status = "in_progress"],
                  ![r].pc = EntryPoint]
    /\ UNCHANGED <<pipelineVars, streamVars, rankVars>>

ConcClassify(r) ==
    /\ runs[r].pc = "classify_intent"
    /\ shared' = [shared EXCEPT !.clock = @ + 1, !.actor = r]
    /\ \E intent \in Intents :
          LET st == [runs[r].state EXCEPT !.intent = intent,
                                          !.nodes_visited = Append(@, "classify_intent")]
          IN  runs' = [runs EXCEPT ![r].state = st,
                                   ![r].pc = IntentEdges(route_after_intent(st))]
    /\ UNCHANGED <<pipelineVars, streamVars, rankVars>>

ConcRetrieve(r) ==
    /\ runs[r].pc = "retrieve_documents"
    /\ shared' = [InitVectorStore(shared) EXCEPT !.clock = @ + 1, !.actor = r]
    /\ \E s \in ConcSearches :
          LET rs == retrieve_documents_node(runs, r, s)
          IN  runs' = [rs EXCEPT ![r].search = s,
                                 ![r].pc = RetrievalEdges(route_after_retrieval(rs[r].state))]
    /\ UNCHANGED <<pipelineVars, streamVars, rankVars>>

ConcTask(r) ==
    /\ runs[r].pc \in TaskNodes
    /\ shared' = [shared EXCEPT !.clock = @ + 1, !.actor = r]
    /\ runs' = [runs EXCEPT ![r].state = TaskResult(runs[r].state, runs[r].pc),
                            ![r].pc = TaskEdge(runs[r].pc)]
    /\ UNCHANGED <<pipelineVars, streamVars, rankVars>>

ConcRespond(r) ==
    /\ runs[r].pc = END
    /\ shared' = [shared EXCEPT !.clock = @ + 1, !.actor = r]
    /\ LET st == [runs[r].state EXCEPT
                     !.processing_time = shared'.clock - runs[r].start_time,
                     !.status = "completed"]
       IN  runs' = [runs EXCEPT ![r].state = st,
                                ![r].response = _build_response(st),
                                ![r].pc = "done"]
    /\ UNCHANGED <<pipelineVars, streamVars, rankVars>>

ConcNext ==
    \E r \in Runs :
        \/ ConcProcessQuery(r)
        \/ ConcClassify(r)
        \/ ConcRetrieve(r)
        \/ ConcTask(r)
        \/ ConcRespond(r)

ConcSpec == ConcInit /\ [][ConcNext]_vars

\* what run r alone would have retrieved from the search it was given
OwnRetrieval(r) ==
    retrieve([create_initial_state(runs[r].user_id, runs[r].query, None)
                 EXCEPT !.intent = runs[r].state.intent],
             runs[r].search).state

\* a step changes the record of the run that takes it and of no other
OnlyOwnRunWrites ==
    \A r \in Runs : runs'[r] # runs[r] => shared'.actor = r

\* the state and the response of a run are those its own user, query and
\* search result give
OwnData ==
    \A r \in Runs :
        /\ runs[r].pc # "idle" =>
              /\ runs[r].state.user_id = runs[r].user_id
              /\ runs[r].state.query = runs[r].query
        /\ runs[r].search.done =>
              /\ runs[r].state.retrieved_documents = OwnRetrieval(r).retrieved_documents
              /\ runs[r].state.context = OwnRetrieval(r).context
              /\ runs[r].state.document_types_available
                   = OwnRetrieval(r).document_types_available
              /\ \A i \in DOMAIN runs[r].state.retrieved_documents :
                    ~Inaccessible(runs[r].search.results[
                        runs[r].state.retrieved_documents[i].metadata.chunk_index],
                        runs[r].user_id)
        /\ runs[r].pc = "done" =>
              /\ runs[r].response.metadata.user_id = runs[r].user_id
              /\ runs[r].response.nodes_visited = runs[r].state.nodes_visited
              /\ runs[r].response.metadata.num_documents_retrieved
                   = Len(OwnRetrieval(r).retrieved_documents)
              /\ \A k \in {"answer", "evaluation", "questions"} :
                    k \in DOMAIN runs[r].response =>
                        runs[r].response[k] = AnswerTo(runs[r].query)

\* C14: in every interleaving of the runs, a step writes the state of the
\* run that takes it and of no other, and every run's state and response
\* hold its own user, query, documents and answer.
C14_RunsIsolated == []OwnData /\ [][OnlyOwnRunWrites]_vars

\* C14 witness: two runs of different users were under way together, each
\* retrieved its own private document from the same search result, and both
\* answered.
C14_Witness ==
    /\ runs[1].user_id = 1 /\ runs[2].user_id = 2
    /\ runs[1].pc = "done" /\ runs[2].pc = "done"
    /\ runs[1].start_time < 2 /\ runs[2].start_time < 2
    /\ runs[1].search = runs[2].search
    /\ Len(runs[1].state.retrieved_documents) = 1
    /\ Len(runs[2].state.retrieved_documents) = 1
    /\ runs[1].state.retrieved_documents # runs[2].state.retrieved_documents
    /\ "answer" \in DOMAIN runs[1].response

----------------------------------------------------------------------------
(* Properties of the failure paths and of the doubt resolver *)

\* C21: when the generation call of a task executor raises (in the doubt
\* path re-raised as WorkflowNodeException), no task output is set and
\* process_query returns a failure envelope, never a success envelope.
C21_GenerationFailureFatal ==
    exc.node \in TaskNodes =>
        /\ pc = "done"
        /\ outcome = "returned"
        /\ response.success = FALSE
        /\ response.error_type = exc.type
        /\ exc.node = "resolve_doubt" => exc.type = "WorkflowNodeException"
        /\ DOMAIN response \cap {"answer", "evaluation", "response", "questions"} = {}
        /\ state.generated_answer = None
        /\ state.evaluation_result = None
        /\ state.final_response = None
        /\ state.generated_questions = None

\* C21 witness: the generation call of the doubt resolver raised after a
\* retrieval that found documents, and the failure envelope was returned.
C21_Witness ==
    /\ exc.node = "resolve_doubt"
    /\ exc.type = "WorkflowNodeException"
    /\ state.retrieved_documents # <<>>
    /\ outcome = "returned"
    /\ response.success = FALSE

----------------------------------------------------------------------------
(* Properties of the assembled messages and of the event stream *)

\* the entries of the message list between the system prompt and the final
\* user message
HistoryPart == SubSeq(sq.messages, 2, Len(sq.messages) - 1)

\* C22: with a non-empty context the system prompt is the notes variant and
\* the final user message is the context template around the context and
\* the literal query; with an empty context the system prompt is the general
\* variant and the final user message is the query as it came. Either way
\* the list is the system prompt, the history, the final user message.
C22_MessageFraming ==
    sq.messages # <<>> =>
        LET n     == Len(sq.messages)
            final == sq.messages[n]
        IN  /\ n >= 2
            /\ sq.messages[1].role = "system"
            /\ sq.messages[1].template = "none"
            /\ final.role = "user"
            /\ final.content = sq.query
            /\ sq.context # <<>> =>
                  /\ sq.messages[1].content = "DOUBT_RESOLVER_SYSTEM"
                  /\ final.template = "context_injection"
                  /\ final.context = sq.context
            /\ sq.context = <<>> =>
                  /\ sq.messages[1].content = "DOUBT_RESOLVER_GENERAL_SYSTEM"
                  /\ final.template = "none"
                  /\ final.context = <<>>
            /\ Len(HistoryPart) \in {Len(sq.history_rows), Len(sq.history_rows) - 1}
            /\ \A i \in DOMAIN HistoryPart :
                  /\ HistoryPart[i].role = sq.history_rows[i].role
                  /\ HistoryPart[i].content = sq.history_rows[i].content
                  /\ HistoryPart[i].template = "none"

\* C22 witness: no context was retrieved and the query went out as it came,
\* behind earlier messages.
C22_Witness ==
    /\ sq.messages # <<>>
    /\ sq.context = <<>>
    /\ sq.retrieved_docs = <<>>
    /\ Len(sq.messages) > 2
    /\ sq.messages[Len(sq.messages)].template = "none"

\* the fetch step takes the newest rows of the conversation, ten at most,
\* oldest first
FetchTakesLastRows ==
    sq.pc = "fetching" /\ sq'.pc = "searching" =>
        LET rows == SelectSeq(db.messages,
                              LAMBDA row : row.conversation_id = sq.conversation_id)
            h    == sq'.history_rows
        IN  /\ Len(h) <= 10
            /\ Len(h) = IF Len(rows) < 10 THEN Len(rows) ELSE 10
            /\ \A i \in DOMAIN h : h[i] = rows[Len(rows) - Len(h) + i]

\* the history of the message list follows the fetched rows, oldest first
HistoryChronological ==
    sq.messages # <<>> =>
        /\ Len(HistoryPart) <= 10
        /\ Len(HistoryPart) <= Len(sq.history_rows)
        /\ \A i \in DOMAIN HistoryPart :
              /\ HistoryPart[i].role = sq.history_rows[i].role
              /\ HistoryPart[i].content = sq.history_rows[i].content
        /\ \A i, j \in DOMAIN sq.history_rows :
              i < j => sq.history_rows[i].id < sq.history_rows[j].id

\* C23: the history of a streaming request's message list is made of at
\* most the last 10 persisted messages of the conversation, oldest first,
\* however long the conversation is.
C23_LastTenChronological ==
    []HistoryChronological /\ [][FetchTakesLastRows]_vars

\* C23 witness: the conversation held more than ten messages, the oldest
\* were left out and the messages were assembled.
C23_Witness ==
    /\ sq.messages # <<>>
    /\ Len(sq.history_rows) = 10
    /\ sq.history_rows[1].id > 1
    /\ Len(HistoryPart) >= 9
    /\ HistoryPart[1].content = sq.history_rows[1].content
    /\ sq.history_rows[1].content # "m1"

----------------------------------------------------------------------------
(* Properties of the context *)

HeaderPositions(ctx) == { p \in DOMAIN ctx : ctx[p].kind = "header" }

\* the header a part of the context stands under
HeaderOf(ctx, p) ==
    CHOOSE h \in HeaderPositions(ctx) :
        h <= p /\ \A g \in HeaderPositions(ctx) : g <= p => g <= h

\* where a document type first appears in the ranked list
FirstOfType(docs, t) ==
    CHOOSE i \in DOMAIN docs :
        docs[i].document_type = t /\ \A j \in 1..(i - 1) : docs[j].document_type # t

\* the positions in the ranked list of the k-th document of a type
KthOfType(docs, t, k) ==
    { j \in DOMAIN docs :
         /\ docs[j].document_type = t
         /\ Cardinality({ i \in 1..j : docs[i].document_type = t }) = k }

ExpectedHeader(t) ==
    CASE t = "notes" ->
            <<"\n", "-", "-", "-", " ", "N", "O", "T", "E", "S", " ", "-", "-", "-", "\n">>
      [] t = "marking_scheme" ->
            <<"\n", "-", "-", "-", " ", "M", "A", "R", "K", "I", "N", "G", " ",
              "S", "C", "H", "E", "M", "E", " ", "-", "-", "-", "\n">>
      [] t = "other" ->
            <<"\n", "-", "-", "-", " ", "O", "T", "H", "E", "R", " ", "-", "-", "-", "\n">>

ExpectedSimilarityText(score) ==
    CASE score = 55 -> <<0, ".", 5, 5>>
      [] score = 60 -> <<0, ".", 6, 0>>
      [] score = 90 -> <<0, ".", 9, 0>>

\* C24: the context holds one group per document type, the groups in the
\* order in which the types first appear in the ranked list and the chunks of
\* a group in ranking order; each group starts with the header "--- TYPE ---"
\* (the type in capitals, blanks for underscores) and each chunk carries its
\* position in the group, counted from 1, and its similarity to two decimals.
C24_GroupedContext ==
    rk.phase = "retrieved" /\ rk.state.context # <<>> =>
        LET ctx  == rk.state.context
            docs == rk.state.retrieved_documents
            H    == HeaderPositions(ctx)
        IN  /\ ctx[1].kind = "header"
            /\ { ctx[p].doc_type : p \in H } = { docs[i].document_type : i \in DOMAIN docs }
            /\ \A p, q \in H :
                  p < q => /\ ctx[p].doc_type # ctx[q].doc_type
                           /\ FirstOfType(docs, ctx[p].doc_type)
                                < FirstOfType(docs, ctx[q].doc_type)
            /\ \A p \in H : ctx[p].text = ExpectedHeader(ctx[p].doc_type)
            /\ Len(ctx) = Len(docs) + Cardinality(H)
            /\ \A p \in DOMAIN ctx \ H :
                  LET h == HeaderOf(ctx, p)
                      k == p - h
                      J == KthOfType(docs, ctx[h].doc_type, k)
                  IN  /\ J # {}
                      /\ \A j \in J :
                            /\ ctx[p].chunk_text = docs[j].chunk_text
                            /\ ctx[p].chunk_info =
                                  <<"[Chunk ", k, " | Similarity: ">>
                                  \o ExpectedSimilarityText(docs[j].similarity_score)
                                  \o <<"]">>

\* C24 witness: the ranked list went notes, other, notes and the context
\* put the two notes chunks under one header, before the other group; a
\* marking scheme group has its underscore replaced.
C24_Witness ==
    /\ rk.phase = "retrieved"
    /\ Len(rk.state.retrieved_documents) = 3
    /\ rk.state.retrieved_documents[1].document_type = "notes"
    /\ rk.state.retrieved_documents[2].document_type = "other"
    /\ rk.state.retrieved_documents[3].document_type = "notes"
    /\ Len(rk.state.context) = 5
    /\ rk.state.context[1].doc_type = "notes"
    /\ rk.state.context[3].kind = "chunk"
    /\ rk.state.context[3].chunk_text = rk.state.retrieved_documents[3].chunk_text
    /\ rk.state.context[4].doc_type = "other"

\* the retriever has run in this query
Retrieved == search.done /\ "document_retriever" \in Range(state.nodes_visited)

\* C25: when no hit is left after scoring (the search gave nothing, every
\* hit was filtered out, or the search failed), the context is the empty
\* string and document_types_available is empty; both are present.
C25_EmptyContext ==
    Retrieved =>
        /\ {"context", "document_types_available", "retrieved_documents"}
              \subseteq DOMAIN state
        /\ ~search.ok => state.retrieved_documents = <<>>
        /\ search.results = <<>> => state.retrieved_documents = <<>>
        /\ state.retrieved_documents = <<>> =>
              /\ state.context = <<>>
              /\ ContextLen(state.context) = 0
              /\ state.document_types_available = {}

\* C25 witness: the search gave hits and none of them was kept.
C25_Witness ==
    /\ Retrieved
    /\ search.ok
    /\ search.results # <<>>
    /\ state.retrieved_documents = <<>>
    /\ state.context = <<>>
    /\ state.document_types_available = {}

----------------------------------------------------------------------------
(* The two doubt paths on one retrieval: resolve, and the framing of the
   streaming request *)

DoubtInit ==
    /\ rk \in { [phase |-> "query", user_id |-> u, intent |-> "DOUBT_CLARIFICATION",
                 results |-> <<>>, scored |-> <<>>,
                 state |-> create_initial_state(u, Query, None),
                 generation |-> <<>>, messages |-> <<>>, encoded_source |-> None] :
               u \in Users }
    /\ PipelineInit /\ StreamOff /\ ConcOff

\* resolve on the state the retriever left
DoubtResolve ==
    /\ rk.phase = "retrieved"
    /\ rk' = [rk EXCEPT !.phase = "resolved",
                        !.generation = DoubtGeneration(rk.state),
                        !.state = resolve(rk.state, "answer")]
    /\ UNCHANGED <<pipelineVars, streamVars, concVars>>

\* lines 294-335 of the streaming request on the same context
DoubtStream ==
    /\ rk.phase = "resolved"
    /\ rk' = [rk EXCEPT !.phase = "framed",
                        !.messages = BuildMessages(<<>>, rk.state.context, rk.state.query),
                        !.encoded_source = EncodedSource(rk.state.context)]
    /\ UNCHANGED <<pipelineVars, streamVars, concVars>>

DoubtNext == RankSearch \/ RankRetrieve \/ DoubtResolve \/ DoubtStream

DoubtSpec == DoubtInit /\ [][DoubtNext]_vars

\* the retrieved documents whose reported similarity is 0.7 or more
GoodDocuments ==
    { i \in DOMAIN rk.state.retrieved_documents :
         rk.state.retrieved_documents[i].similarity_score >= 70 }

\* C26: when retrieval yields no documents, the doubt path answers from
\* general knowledge: has_relevant_notes is false, source_type is
\* general_knowledge and the general prompt is used, not the notes prompt.
C26_GeneralKnowledgeFallback ==
    rk.phase \in {"resolved", "framed"} /\ rk.state.retrieved_documents = <<>> =>
        /\ rk.state.task_data.has_relevant_notes = FALSE
        /\ rk.state.task_data.source_type = "general_knowledge"
        /\ rk.generation.prompt = "DOUBT_RESOLVER_GENERAL_PROMPT"
        /\ rk.generation.system_prompt = "DOUBT_RESOLVER_GENERAL_SYSTEM"
        /\ rk.generation.context = <<>>
        /\ rk.state.final_response = "## Answer" \o "answer" \o "based on general knowledge"
        /\ rk.phase = "framed" =>
              /\ rk.encoded_source = "general_knowledge"
              /\ rk.messages[1].content = "DOUBT_RESOLVER_GENERAL_SYSTEM"

\* C26 witness: the corpus was empty and the doubt was answered from general
\* knowledge.
C26_Witness ==
    /\ rk.phase = "resolved"
    /\ rk.results = <<>>
    /\ rk.state.retrieved_documents = <<>>
    /\ rk.state.task_data.source_type = "general_knowledge"
    /\ rk.generation.prompt = "DOUBT_RESOLVER_GENERAL_PROMPT"

----------------------------------------------------------------------------
(* Properties of the conversations *)

\* the user a conversation belongs to
ConversationOwner(id) == db.conversations[id].user_id

\* C27: a streaming request touches only a conversation of the requesting
\* user: the conversation its user message and its answer are saved to, and
\* the one its history is read from, belong to the authenticated user, also
\* when the request names the conversation itself.
C27_OwnConversationOnly ==
    sq.pc # "request" =>
        /\ ConversationOwner(sq.conversation_id) = sq.user_id
        /\ ConversationOwner(db.messages[sq.saved_id].conversation_id) = sq.user_id
        /\ \A i \in DOMAIN sq.history_rows :
              ConversationOwner(sq.history_rows[i].conversation_id) = sq.user_id
        /\ \A i \in StreamedRows :
              ConversationOwner(db.messages[i].conversation_id) = sq.user_id

\* the query text was not in the conversation before the request
FreshQuery ==
    \A i \in DOMAIN db.messages :
        i < sq.saved_id /\ db.messages[i].conversation_id = sq.conversation_id
            => db.messages[i].content # sq.query

\* C28: whatever another streaming request on the same conversation does in
\* between, the message list of a request holds its query text once, in the
\* final user message, and its history holds no message that was persisted
\* after the request's own user message.
C28_ConcurrentStreams ==
    sq.messages # <<>> =>
        /\ FreshQuery =>
              { i \in DOMAIN sq.messages : sq.messages[i].content = sq.query }
                 = {Len(sq.messages)}
        /\ \A i \in DOMAIN HistoryPart : sq.history_rows[i].id < sq.saved_id

Terminal == {"done", "error"}

\* the events before the terminal one
EventsBody ==
    IF events # <<>> /\ events[Len(events)].type \in Terminal
    THEN SubSeq(events, 1, Len(events) - 1)
    ELSE events

\* the events come in the fixed order, a terminal one last, and done stands
\* for exactly one saved answer, error for none
EventsInOrder ==
    /\ \A i \in DOMAIN EventsBody :
          /\ EventsBody[i].type \notin Terminal
          /\ i = 1 => EventsBody[i] = [type |-> "status", message |-> "Fetching history..."]
          /\ i = 2 => EventsBody[i] = [type |-> "status",
                                       message |-> "Searching knowledge base..."]
          /\ i = 3 => EventsBody[i].type = "info"
          /\ i = 4 => EventsBody[i] = [type |-> "status", message |-> "Thinking..."]
          /\ i >= 5 => EventsBody[i].type = "chunk"
    /\ events # <<>> /\ events[Len(events)].type = "done" =>
          /\ Len(EventsBody) >= 4
          /\ Cardinality(StreamedRows) = 1
    /\ events # <<>> /\ events[Len(events)].type = "error" => StreamedRows = {}
    /\ events # <<>> =>
          /\ sq.saved_id \in DOMAIN db.messages
          /\ db.messages[sq.saved_id].role = "user"
          /\ db.messages[sq.saved_id].content = sq.query
          /\ db.messages[sq.saved_id].conversation_id = sq.conversation_id

\* the request writes its user message once, in the step before the first
\* event, and nothing else but the answer that goes with done
SavesOnce ==
    /\ sq.pc = "request" /\ sq'.pc # "request" =>
          /\ events' = <<>>
          /\ Len(db'.messages) = Len(db.messages) + 1
    /\ events' # events =>
          /\ \E e \in {events'[Len(events')]} : events' = Append(events, e)
          /\ events # <<>> => events[Len(events)].type \notin Terminal
          /\ \/ db' = db
             \/ /\ events'[Len(events')].type = "done"
                /\ Len(db'.messages) = Len(db.messages) + 1
                /\ db'.messages[Len(db'.messages)].role = "assistant"

\* C29: a streaming request emits status (fetching history), status
\* (searching), info, status (thinking), then chunks, then at most one
\* terminal event: done, only after the answer was saved exactly once, or
\* error, when a step raised, with no answer saved; never both, and no
\* chunk after a terminal event. The user message is saved once, before the
\* first event.
C29_EventOrder == []EventsInOrder /\ [][SavesOnce]_vars

\* C29 witness: a full run: four leading events, two chunks, done, and the
\* one saved answer.
C29_Witness ==
    /\ Len(events) = 7
    /\ events[5].type = "chunk"
    /\ events[6].type = "chunk"
    /\ events[7].type = "done"
    /\ Cardinality(StreamedRows) = 1

====
